---- MODULE Spec2Model ----
(***************************************************************************)
(* Model of src/src/main.py: calculate_fibonacci (naive binary recursion)  *)
(* and main().  The function is given twice: as the operator               *)
(* calculate_fibonacci(n), its value, and as a call-stack machine (one     *)
(* frame per active invocation), its execution.  Three specifications:     *)
(*   Spec      the script run as __main__ (line 21-22 -> main()),          *)
(*   SpecFib   one call calculate_fibonacci(n), n drawn from Args,         *)
(*   SpecCalls a sequence of calls on arguments drawn from CallArgs, each  *)
(*             completed call recorded in hist.                            *)
(***************************************************************************)
EXTENDS Integers, Sequences, FiniteSets, TLC

VARIABLES
    pc,        \* position of the caller (main or the driver of a call)
    n,         \* main's local n / the argument of the top-level call
    result,    \* main's local result / the value the top-level call returned
    stdout,    \* the lines written to standard output, in order
    stack,     \* active calculate_fibonacci frames, innermost last
    calls,     \* history: invocations made since the top-level call began
    maxDepth,  \* history: largest number of simultaneously active frames
    hist       \* history: completed top-level calls, <<[arg, res]>>

vars == <<pc, n, result, stdout, stack, calls, maxDepth, hist>>

\* ---------------------------------------------------------------- bounds
MaxArg == 20          \* largest argument drawn in SpecFib
MaxNeg == 3           \* arguments are drawn from -MaxNeg upwards
MaxCallArg == 6       \* largest argument drawn in SpecCalls
MaxCalls == 3         \* number of top-level calls in a SpecCalls behaviour
RecursionLimit == 1000 \* frames the host allows before it raises RecursionError

Args == (0 - MaxNeg)..MaxArg
CallArgs == (0 - MaxNeg)..MaxCallArg

\* ------------------------------------------------- the function's value
\* Variants of the test: `n == 1` and `n < 1`.
BaseCaseEqOne(k) == k = 1
BaseCaseLtOne(k) == k < 1

\* line 8: the test `n <= 1`
BaseCase(k) == k <= 1

\* Variant of the function: the operands subtracted.
RECURSIVE calculate_fibonacci_minus(_)
calculate_fibonacci_minus(k) ==
    IF BaseCase(k) THEN k
    ELSE calculate_fibonacci_minus(k - 1) - calculate_fibonacci_minus(k - 2)

RECURSIVE calculate_fibonacci(_)
calculate_fibonacci(k) ==
    IF BaseCase(k) THEN k
    ELSE calculate_fibonacci(k - 1) + calculate_fibonacci(k - 2)

\* --------------------------------------------------- str() of an integer
Digits == <<"0", "1", "2", "3", "4", "5", "6", "7", "8", "9">>

RECURSIVE NatToStr(_)
NatToStr(k) ==
    IF k < 10 THEN Digits[k + 1]
    ELSE NatToStr(k \div 10) \o Digits[(k % 10) + 1]

IntToStr(k) == IF k < 0 THEN "-" \o NatToStr(0 - k) ELSE NatToStr(k)

StartLine == "Starting application..."

\* Variant of the result line: index and value exchanged.
ResultLineSwapped(idx, res) ==
    "The " \o IntToStr(res) \o "th Fibonacci number is: " \o IntToStr(idx)

ResultLine(idx, res) ==
    "The " \o IntToStr(idx) \o "th Fibonacci number is: " \o IntToStr(res)

\* ------------------------------------------------------ the call machine
\* A frame: arg is the parameter n; at is the position in the body:
\*   "test"  about to evaluate `n <= 1` (line 8)
\*   "left"  waiting for calculate_fibonacci(n-1) (line 10, first operand)
\*   "mid"   first operand known, about to call calculate_fibonacci(n-2)
\*   "right" waiting for calculate_fibonacci(n-2)
\*   "add"   both operands known, about to add and return
NewFrame(k) == [arg |-> k, at |-> "test", left |-> 0, right |-> 0]

Top == stack[Len(stack)]
Below == SubSeq(stack, 1, Len(stack) - 1)
SetTop(s, f) == [s EXCEPT ![Len(s)] = f]
Max(a, b) == IF a >= b THEN a ELSE b

\* Where the caller of the top-level call continues once it has the value.
ReturnTo(p) == IF p = "m17w" THEN "m19" ELSE "returned"

\* The frame on top invokes calculate_fibonacci(k) and waits at `cont`.  A host
\* that has no room for one more frame raises RecursionError, which nothing
\* catches: every frame is unwound and the process ends abnormally.
Call(k, cont) ==
    IF Len(stack) >= RecursionLimit
    THEN /\ stack' = <<>>
         /\ pc' = "error"
         /\ UNCHANGED <<n, result, stdout, calls, maxDepth, hist>>
    ELSE /\ stack' = Append(SetTop(stack, [Top EXCEPT !.at = cont]), NewFrame(k))
         /\ calls' = calls + 1
         /\ maxDepth' = Max(maxDepth, Len(stack) + 1)
         /\ UNCHANGED <<pc, n, result, stdout, hist>>

\* Variant of Return: the value of the top-level call is added to what the
\* caller's variable held (a result kept across calls).
ReturnAccumulating(v) ==
    IF Len(stack) = 1
    THEN /\ stack' = <<>>
         /\ result' = result + v
         /\ pc' = ReturnTo(pc)
         /\ UNCHANGED <<n, stdout, calls, maxDepth, hist>>
    ELSE /\ stack' = SetTop(Below,
                IF Below[Len(Below)].at = "left"
                THEN [Below[Len(Below)] EXCEPT !.left = v, !.at = "mid"]
                ELSE [Below[Len(Below)] EXCEPT !.right = v, !.at = "add"])
         /\ UNCHANGED <<pc, n, result, stdout, calls, maxDepth, hist>>

\* The frame on top returns v: it is popped and v becomes the operand its
\* caller was waiting for, or the value of the top-level call.
Return(v) ==
    IF Len(stack) = 1
    THEN /\ stack' = <<>>
         /\ result' = v
         /\ pc' = ReturnTo(pc)
         /\ UNCHANGED <<n, stdout, calls, maxDepth, hist>>
    ELSE /\ stack' = SetTop(Below,
                IF Below[Len(Below)].at = "left"
                THEN [Below[Len(Below)] EXCEPT !.left = v, !.at = "mid"]
                ELSE [Below[Len(Below)] EXCEPT !.right = v, !.at = "add"])
         /\ UNCHANGED <<pc, n, result, stdout, calls, maxDepth, hist>>

\* Variants of the base case: `return 1`, and `return max(n, 0)`.
FibReturnBaseOne ==
    /\ stack # <<>>
    /\ Top.at = "test"
    /\ BaseCase(Top.arg)
    /\ Return(1)

FibReturnBaseClamped ==
    /\ stack # <<>>
    /\ Top.at = "test"
    /\ BaseCase(Top.arg)
    /\ Return(Max(Top.arg, 0))

\* line 8-9: if n <= 1: return n
FibReturnBase ==
    /\ stack # <<>>
    /\ Top.at = "test"
    /\ BaseCase(Top.arg)
    /\ Return(Top.arg)

\* line 8 false, line 10: evaluate calculate_fibonacci(n-1)
FibCallLeft ==
    /\ stack # <<>>
    /\ Top.at = "test"
    /\ ~BaseCase(Top.arg)
    /\ Call(Top.arg - 1, "left")

\* Variant of the second call: calculate_fibonacci(n-1) again.
FibCallRightSame ==
    /\ stack # <<>>
    /\ Top.at = "mid"
    /\ Call(Top.arg - 1, "right")

\* line 10: evaluate calculate_fibonacci(n-2)
FibCallRight ==
    /\ stack # <<>>
    /\ Top.at = "mid"
    /\ Call(Top.arg - 2, "right")

\* Variant of the sum: the first operand twice.
FibReturnSumDouble ==
    /\ stack # <<>>
    /\ Top.at = "add"
    /\ Return(Top.left + Top.left)

\* line 10: return the sum of the two operands
FibReturnSum ==
    /\ stack # <<>>
    /\ Top.at = "add"
    /\ Return(Top.left + Top.right)

\* The top-level invocation calculate_fibonacci(k) from a caller that then
\* waits at `cont`.
Invoke(k, cont) ==
    /\ stack' = <<NewFrame(k)>>
    /\ calls' = 1
    /\ maxDepth' = 1
    /\ pc' = cont

\* ------------------------------------------------------------------ main
\* line 21-22: the script is run directly
RunModule ==
    /\ pc = "l21"
    /\ pc' = "m14"
    /\ UNCHANGED <<n, result, stdout, stack, calls, maxDepth, hist>>

\* line 14
MainPrintStart ==
    /\ pc = "m14"
    /\ stdout' = Append(stdout, StartLine)
    /\ pc' = "m16"
    /\ UNCHANGED <<n, result, stack, calls, maxDepth, hist>>

\* line 16
MainAssign ==
    /\ pc = "m16"
    /\ n' = 10
    /\ pc' = "m17"
    /\ UNCHANGED <<result, stdout, stack, calls, maxDepth, hist>>

\* line 17
MainCall ==
    /\ pc = "m17"
    /\ Invoke(n, "m17w")
    /\ UNCHANGED <<n, result, stdout, hist>>

\* line 19
MainPrintResult ==
    /\ pc = "m19"
    /\ stdout' = Append(stdout, ResultLine(n, result))
    /\ pc' = "done"
    /\ UNCHANGED <<n, result, stack, calls, maxDepth, hist>>

Init ==
    /\ pc = "l21"
    /\ n = 0
    /\ result = 0
    /\ stdout = <<>>
    /\ stack = <<>>
    /\ calls = 0
    /\ maxDepth = 0
    /\ hist = <<>>

Next ==
    \/ RunModule
    \/ MainPrintStart
    \/ MainAssign
    \/ MainCall
    \/ MainPrintResult
    \/ FibReturnBase
    \/ FibCallLeft
    \/ FibCallRight
    \/ FibReturnSum

Spec == Init /\ [][Next]_vars

\* The interpreter runs one thread and executes the next instruction whenever
\* there is one.
FairSpec == Spec /\ WF_vars(Next)

\* ------------------------------------------------- one call on any input
DriverCall ==
    /\ pc = "call"
    /\ Invoke(n, "calling")
    /\ UNCHANGED <<n, result, stdout, hist>>

InitFib ==
    /\ pc = "call"
    /\ n \in Args
    /\ result = 0
    /\ stdout = <<>>
    /\ stack = <<>>
    /\ calls = 0
    /\ maxDepth = 0
    /\ hist = <<>>

NextFib ==
    \/ DriverCall
    \/ FibReturnBase
    \/ FibCallLeft
    \/ FibCallRight
    \/ FibReturnSum

SpecFib == InitFib /\ [][NextFib]_vars

FairSpecFib == SpecFib /\ WF_vars(NextFib)

\* ------------------------------------------------------ a series of calls
\* The driver records the completed call ...
DriverRecord ==
    /\ pc = "returned"
    /\ hist' = Append(hist, [arg |-> n, res |-> result])
    /\ pc' = "recorded"
    /\ UNCHANGED <<n, result, stdout, stack, calls, maxDepth>>

\* ... and draws the argument of the next one.
DriverPick ==
    /\ pc = "recorded"
    /\ Len(hist) < MaxCalls
    /\ n' \in CallArgs
    /\ pc' = "call"
    /\ UNCHANGED <<result, stdout, stack, calls, maxDepth, hist>>

InitCalls ==
    /\ pc = "call"
    /\ n \in CallArgs
    /\ result = 0
    /\ stdout = <<>>
    /\ stack = <<>>
    /\ calls = 0
    /\ maxDepth = 0
    /\ hist = <<>>

NextCalls ==
    \/ DriverCall
    \/ DriverRecord
    \/ DriverPick
    \/ FibReturnBase
    \/ FibCallLeft
    \/ FibCallRight
    \/ FibReturnSum

SpecCalls == InitCalls /\ [][NextCalls]_vars

\* ============================================================ properties
\* The mathematical Fibonacci numbers, by forward iteration from F(0) = 0 and
\* F(1) = 1, and the table of F(0)..F(20).
RECURSIVE FibIter(_, _, _)
FibIter(k, a, b) == IF k = 0 THEN a ELSE FibIter(k - 1, b, a + b)
MathFib(k) == FibIter(k, 0, 1)

FibTable ==
    <<0, 1, 1, 2, 3, 5, 8, 13, 21, 34, 55, 89, 144, 233, 377, 610, 987, 1597,
      2584, 4181, 6765>>

Returned == pc = "returned"

\* C1: for every n in 0..20 (and every n >= 0 drawn), the call
\* calculate_fibonacci(n) returns the Fibonacci number F(n): the tabulated
\* value, the value of the recurrence from F(0) = 0, F(1) = 1, and the value of
\* the function.
C1_ReturnsFibonacci ==
    (Returned /\ n >= 0) =>
        /\ result = MathFib(n)
        /\ n <= 20 => result = FibTable[n + 1]
        /\ result = calculate_fibonacci(n)

C1_Witness == Returned /\ n = 20 /\ result = 6765

\* C2: standard output is at every moment a prefix of the two expected lines,
\* the start line first, and holds exactly those two lines once main has ended.
ExpectedOutput ==
    <<"Starting application...", "The 10th Fibonacci number is: 55">>

C2_TwoLinesInOrder ==
    /\ Len(stdout) <= Len(ExpectedOutput)
    /\ stdout = SubSeq(ExpectedOutput, 1, Len(stdout))
    /\ pc \in {"l21", "m14"} => stdout = <<>>
    /\ pc \in {"m16", "m17", "m17w", "m19"} => Len(stdout) = 1
    /\ pc = "done" => stdout = ExpectedOutput

C2_Witness == pc = "done" /\ Len(stdout) = 2 /\ stdout[2] = ExpectedOutput[2]

\* C3: a call on a negative n returns n itself, makes no recursive call (one
\* invocation, one frame) and raises no error.
C3_NegativePassThrough ==
    n < 0 =>
        /\ pc # "error"
        /\ Len(stack) <= 1
        /\ Returned => (result = n /\ calls = 1 /\ maxDepth = 1)
        /\ calculate_fibonacci(n) = n

C3_Witness == Returned /\ n = 0 - 2 /\ result = 0 - 2 /\ calls = 1

\* C4: for n >= 0 the value of calculate_fibonacci(n + 1) is at least the value
\* the call calculate_fibonacci(n) returned.
C4_NonDecreasing ==
    (Returned /\ n >= 0) => calculate_fibonacci(n + 1) >= result

C4_Witness ==
    /\ Returned
    /\ n = 7
    /\ result = 13
    /\ calculate_fibonacci(n + 1) = 21

\* C5: calls with the same argument return the same result, whatever calls
\* were made before or between them; a call writes nothing to standard output
\* and leaves its own argument as it was.
C5_PureDeterministic ==
    /\ \A i, j \in 1..Len(hist) : hist[i].arg = hist[j].arg => hist[i].res = hist[j].res
    /\ Returned => \A i \in 1..Len(hist) : hist[i].arg = n => hist[i].res = result
    /\ stdout = <<>>
    /\ stack # <<>> => stack[1].arg = n

C5_Witness ==
    /\ Len(hist) = 3
    /\ hist[1].arg = hist[3].arg
    /\ hist[2].arg # hist[1].arg
    /\ hist[1].arg = 6
    /\ hist[3].res = 8

\* C6: a run of the entry point never reaches the error state and eventually
\* reaches its normal end, the call having returned 55 and the result line
\* having been printed.
C6_RunTerminates ==
    /\ [](pc # "error")
    /\ <>[](pc = "done" /\ result = 55 /\ Len(stdout) = 2 /\ stack = <<>>)

C6_Witness == pc = "done" /\ result = 55 /\ stack = <<>>

\* C7: every invocation on n >= 2 (the top-level one and every nested one)
\* returns calculate_fibonacci(n-1) + calculate_fibonacci(n-2), and an
\* invocation on n <= 1 returns n without making a call.
C7_Recurrence ==
    /\ (Returned /\ n >= 2) =>
            result = calculate_fibonacci(n - 1) + calculate_fibonacci(n - 2)
    /\ (Returned /\ n <= 1) => (result = n /\ calls = 1)
    /\ \A i \in 1..Len(stack) :
            /\ stack[i].at # "test" => stack[i].arg >= 2
            /\ i < Len(stack) => stack[i].at \in {"left", "right"}
    /\ (stack # <<>> /\ Top.at \in {"mid", "add"}) =>
            Top.left = calculate_fibonacci(Top.arg - 1)
    /\ (stack # <<>> /\ Top.at = "add") =>
            Top.right = calculate_fibonacci(Top.arg - 2)

C7_Witness ==
    /\ Returned
    /\ n = 20
    /\ result = 4181 + 2584
    /\ calls > 1

\* C8: while calculate_fibonacci(n) is evaluated for n >= 1, at most n frames
\* are active at once, and n frames are active at some moment.
C8_DepthIsN ==
    n >= 1 =>
        /\ Len(stack) <= n
        /\ maxDepth <= n
        /\ Returned => maxDepth = n

C8_Witness == Len(stack) = n /\ n = MaxArg /\ Top.arg = 1

\* C9: in the evaluation of calculate_fibonacci(n) for n >= 0, every nested
\* invocation has an argument in 0..n-1.
C9_ArgumentsInRange ==
    n >= 0 =>
        \A i \in 2..Len(stack) : stack[i].arg >= 0 /\ stack[i].arg <= n - 1

C9_Witness ==
    /\ n >= 2
    /\ Len(stack) >= 2
    /\ Top.arg = 0
    /\ Top.at = "test"

\* C10: every call calculate_fibonacci(n) returns, and for n >= 0 it has then
\* made exactly 2*F(n+1) - 1 invocations, the top-level one included.
C10_TerminatesWithCallCount ==
    /\ <>[]Returned
    /\ [](pc # "error")
    /\ []((Returned /\ n >= 0) => calls = 2 * MathFib(n + 1) - 1)

C10_Witness == Returned /\ n = 10 /\ calls = 177

====
